---- MODULE Spec2Model ----
(***************************************************************************)
(* aws-vault: a command-line wrapper with four commands (main.go).         *)
(*   upload / download            one S3 PutObject / GetObject             *)
(*   update-secret / create-secret  Secrets Manager Describe/Update/Create *)
(*                                                                         *)
(* One process execution runs one command.  A handler is a straight line   *)
(* of code that blocks only in SDK calls, so each handler is cut at its    *)
(* blocking calls: the command action runs the handler up to the first     *)
(* call it issues (or to os.Exit), and each ...Return action runs it from  *)
(* the return of that call to the next call or to the end of the process.  *)
(* Strings are sequences of characters, file contents sequences of bytes,  *)
(* error texts sequences of words.                                         *)
(***************************************************************************)
EXTENDS Integers, Sequences, FiniteSets, TLC

VARIABLES
    pc,          \* where the process is: "idle", the SDK call in flight, "done"
    cmd,         \* the subcommand cobra dispatched
    flags,       \* the parsed flag values
    data,        \* uploadCmd: the bytes read from the local file
    secretValue, \* secret commands: the string returned by readSecretFromJSON
    calls,       \* SDK requests issued by this process, in order
    rets,        \* results of the calls and of reading a response body, in order
    out,         \* lines printed
    exitCode,    \* process exit status (meaningful when pc = "done")
    fsOps,       \* local file operations performed by this process, in order
    now,         \* time elapsed since context.WithTimeout was called
    fs,          \* local file system: path -> file
    s3,          \* object store: set of objects [bucket, key, data]
    tracked,     \* history: an earlier successful upload not yet overwritten
    nproc        \* history: number of processes started

vars == <<pc, cmd, flags, data, secretValue, calls, rets, out, exitCode,
          fsOps, now, fs, s3, tracked, nproc>>

-----------------------------------------------------------------------------
(* Bounds of the model *)

MaxByte == 2
MaxContentLen == 1
MaxTimeout == 2
MaxProcs == 2

MaxTime == MaxTimeout + 1

Byte == 1..MaxByte

\* the file contents tried: every byte string of length at most one, and the
\* runs of one byte up to MaxContentLen
Contents ==
    {<<>>} \cup {<<b>> : b \in Byte} \cup {[i \in 1..k |-> 1] : k \in 1..MaxContentLen}

Slash == <<"/">>
EmptyStr == <<>>

BucketNames == {EmptyStr, <<"k">>}
FilePaths == {EmptyStr, <<"c">>, <<"b", "/", "c">>}
Subdirs == {EmptyStr, <<"a">>, <<"a", "/", "b">>}
SecretNames == {EmptyStr, <<"n">>}
Regions == {EmptyStr, <<"r">>}
Descriptions == {EmptyStr, <<"d">>}
Timeouts == 0..MaxTimeout

LocalPaths == FilePaths \ {EmptyStr}

-----------------------------------------------------------------------------
(* Local files and stored objects *)

NoFile == [present |-> FALSE, data |-> <<>>]
File(d) == [present |-> TRUE, data |-> d]
FileStates == {NoFile} \cup {File(d) : d \in Contents}

\* the file at a path; a path that names no file (the empty path included)
\* cannot be read
FileAt(files, p) == IF p \in DOMAIN files THEN files[p] ELSE NoFile

Prefixes(d) == {SubSeq(d, 1, k) : k \in 0..Len(d)}

S3Get(store, b, k) == {o \in store : o.bucket = b /\ o.key = k}
S3Put(store, b, k, d) ==
    (store \ S3Get(store, b, k)) \cup {[bucket |-> b, key |-> k, data |-> d]}

Untracked == [valid |-> FALSE, bucket |-> <<>>, sub |-> <<>>, file |-> <<>>,
              data |-> <<>>]

-----------------------------------------------------------------------------
(* Printed lines *)

MsgUsageTransfer == "Please provide all required input parameters: --bucket and --file"
MsgUsageSecret == "Please provide all required input parameters: --name, --region, --description, and --json-file"
MsgConfigErr == "Error loading AWS SDK config:"
MsgReadFileErr == "Error reading file:"
MsgPutErr == "Error uploading file to S3:"
MsgUploaded == "File uploaded to S3 successfully."
MsgGetErr == "Error downloading file from S3:"
MsgReadBodyErr == "Error reading file contents:"
MsgWriteErr == "Error writing file to disk:"
MsgDownloaded == "File downloaded from S3 successfully."
MsgReadSecretErr == "Error reading secret value from JSON file:"
MsgNotExist == "Secret does not exist. Proceeding with creation..."
MsgDescribeErr == "Error describing secret:"
MsgExistsNoUpdate == "Secret already exists and update flag not set. Exiting."
MsgUpdateErr == "Error updating secret:"
MsgUpdated == "Successfully updated secret."
MsgCreateErr == "Error creating secret:"
MsgCreated == "Successfully created, Secret ARN:"

-----------------------------------------------------------------------------
(* The state of a process as the handlers compute it *)

Fresh == [pc |-> "idle", data |-> <<>>, secretValue |-> <<>>, calls |-> <<>>,
          out |-> <<>>, exitCode |-> 0, fsOps |-> <<>>]

Fatal(st, line) ==
    [st EXCEPT !.pc = "done", !.exitCode = 1, !.out = Append(@, line)]

Finish(st, line) ==
    [st EXCEPT !.pc = "done", !.exitCode = 0, !.out = Append(@, line)]

Issue(st, call) ==
    [st EXCEPT !.pc = call.op, !.calls = Append(@, call)]

DefaultFlags ==
    [bucket |-> EmptyStr, file |-> EmptyStr, subdirectory |-> EmptyStr,
     name |-> EmptyStr, region |-> EmptyStr, description |-> EmptyStr,
     jsonFile |-> EmptyStr, timeout |-> 0, update |-> FALSE]

-----------------------------------------------------------------------------
(* upload / download *)

MissingTransferFlagsMutant(bucketName, filePath) ==
    bucketName = EmptyStr /\ filePath = EmptyStr

MissingTransferFlags(bucketName, filePath) ==
    bucketName = EmptyStr \/ filePath = EmptyStr

UploadKey(subdirectory, filePath) == subdirectory \o Slash \o filePath

DownloadKeyMutant(subdirectory, filePath) == Slash \o filePath

DownloadKey(subdirectory, filePath) == subdirectory \o Slash \o filePath

PutObjectInput(b, k, d) == [op |-> "PutObject", bucket |-> b, key |-> k, body |-> d]

GetObjectInput(b, k) == [op |-> "GetObject", bucket |-> b, key |-> k]

ReadOp(p) == [op |-> "ReadFile", path |-> p]
WriteOp(p) == [op |-> "WriteFile", path |-> p]

\* uploadCmd from its entry to the PutObject request
UploadStart(fl, cfgOk, files) ==
    IF MissingTransferFlags(fl.bucket, fl.file) THEN Fatal(Fresh, MsgUsageTransfer)
    ELSE IF ~cfgOk THEN Fatal(Fresh, MsgConfigErr)
    ELSE LET st == [Fresh EXCEPT !.fsOps = <<ReadOp(fl.file)>>] IN
         IF ~FileAt(files, fl.file).present THEN Fatal(st, MsgReadFileErr)
         ELSE LET d == FileAt(files, fl.file).data IN
              Issue([st EXCEPT !.data = d],
                    PutObjectInput(fl.bucket, UploadKey(fl.subdirectory, fl.file), d))

\* downloadCmd from its entry to the GetObject request
DownloadStart(fl, cfgOk) ==
    IF MissingTransferFlags(fl.bucket, fl.file) THEN Fatal(Fresh, MsgUsageTransfer)
    ELSE IF ~cfgOk THEN Fatal(Fresh, MsgConfigErr)
    ELSE Issue(Fresh, GetObjectInput(fl.bucket, DownloadKey(fl.subdirectory, fl.file)))

Install(st) ==
    /\ pc' = st.pc
    /\ data' = st.data
    /\ secretValue' = st.secretValue
    /\ calls' = st.calls
    /\ out' = st.out
    /\ exitCode' = st.exitCode
    /\ fsOps' = st.fsOps

Current == [pc |-> pc, data |-> data, secretValue |-> secretValue,
            calls |-> calls, out |-> out, exitCode |-> exitCode, fsOps |-> fsOps]

Result(ok, msg) == [ok |-> ok, msg |-> msg, at |-> now]

uploadCmd ==
    /\ pc = "idle"
    /\ \E b \in BucketNames, f \in FilePaths, s \in Subdirs, cfgOk \in BOOLEAN :
          LET fl == [DefaultFlags EXCEPT !.bucket = b, !.file = f, !.subdirectory = s] IN
          /\ MissingTransferFlags(b, f) => cfgOk
          /\ cmd' = "upload"
          /\ flags' = fl
          /\ Install(UploadStart(fl, cfgOk, fs))
    /\ UNCHANGED <<rets, now, fs, s3, tracked, nproc>>

downloadCmd ==
    /\ pc = "idle"
    /\ \E b \in BucketNames, f \in FilePaths, s \in Subdirs, cfgOk \in BOOLEAN :
          LET fl == [DefaultFlags EXCEPT !.bucket = b, !.file = f, !.subdirectory = s] IN
          /\ MissingTransferFlags(b, f) => cfgOk
          /\ cmd' = "download"
          /\ flags' = fl
          /\ Install(DownloadStart(fl, cfgOk))
    /\ UNCHANGED <<rets, now, fs, s3, tracked, nproc>>

ErrS3 == <<"operation error S3">>
ErrBody == <<"unexpected EOF">>
NoErr == <<>>

\* uploadCmd from the return of PutObject to the end
UploadFinish(st, putOk) ==
    IF ~putOk THEN Fatal(st, MsgPutErr) ELSE Finish(st, MsgUploaded)

\* PutObject returns.  A request that fails may or may not have been
\* applied by the service.
PutObjectReturn ==
    /\ pc = "PutObject"
    /\ \E putOk \in BOOLEAN, stored \in BOOLEAN, track \in BOOLEAN :
          LET call == calls[Len(calls)]
              written == putOk \/ stored
              hitsTracked == /\ tracked.valid
                             /\ tracked.bucket = call.bucket
                             /\ tracked.sub \o Slash \o tracked.file = call.key
              this == [valid |-> TRUE, bucket |-> flags.bucket,
                       sub |-> flags.subdirectory, file |-> flags.file,
                       data |-> FileAt(fs, flags.file).data]
          IN
          /\ putOk => stored
          /\ ~written => ~track
          /\ (written /\ ~putOk) => ~track
          /\ s3' = IF written THEN S3Put(s3, call.bucket, call.key, call.body) ELSE s3
          /\ tracked' = IF putOk /\ track THEN this
                        ELSE IF written /\ hitsTracked THEN Untracked
                        ELSE tracked
          /\ rets' = Append(rets, Result(putOk, IF putOk THEN NoErr ELSE ErrS3))
          /\ Install(UploadFinish(Current, putOk))
    /\ UNCHANGED <<cmd, flags, now, fs, nproc>>

WriteOutcomes == {"ok", "openfail", "partial"}

\* ioutil.WriteFile(path, d, 0644): creates or truncates the file, then
\* writes; a failure leaves the file as it was (open failed) or holding a
\* prefix of d.
WriteFile(files, path, d, w, p) ==
    IF path \notin DOMAIN files THEN files
    ELSE IF w = "ok" THEN [files EXCEPT ![path] = File(d)]
    ELSE IF w = "partial" THEN [files EXCEPT ![path] = File(p)]
    ELSE files

DownloadWritesFileMutant(getOk, readOk) == getOk

\* the WriteFile call is reached only past both error checks
DownloadWritesFile(getOk, readOk) == getOk /\ readOk

\* downloadCmd from the return of GetObject to the end
DownloadFinish(st, fl, getOk, readOk, w) ==
    IF ~getOk THEN Fatal(st, MsgGetErr)
    ELSE IF ~readOk THEN Fatal(st, MsgReadBodyErr)
    ELSE LET st2 == [st EXCEPT !.fsOps = Append(@, WriteOp(fl.file))] IN
         IF w # "ok" THEN Fatal(st2, MsgWriteErr)
         ELSE Finish(st2, MsgDownloaded)

GetObjectReturn ==
    /\ pc = "GetObject"
    /\ \E netOk \in BOOLEAN, readOk \in BOOLEAN, w \in WriteOutcomes :
          LET call == calls[Len(calls)]
              objs == S3Get(s3, call.bucket, call.key)
              getOk == netOk /\ objs # {}
              body == IF objs = {} THEN <<>> ELSE (CHOOSE o \in objs : TRUE).data
          IN
          /\ ~netOk => readOk
          /\ ~(getOk /\ readOk) => w = "ok"
          /\ \E got \in Prefixes(body), p \in Prefixes(body) :
                /\ readOk => got = body
                /\ ~(getOk /\ ~readOk) => got = body
                /\ (w = "partial") => (p # body \/ body = <<>>)
                /\ (w # "partial") => p = <<>>
                /\ fs' = IF DownloadWritesFile(getOk, readOk)
                         THEN WriteFile(fs, flags.file, got, w, p)
                         ELSE fs
          /\ rets' = IF getOk
                     THEN rets \o <<Result(TRUE, NoErr),
                                    Result(readOk, IF readOk THEN NoErr ELSE ErrBody)>>
                     ELSE Append(rets, Result(FALSE, ErrS3))
          /\ Install(DownloadFinish(Current, flags, getOk, readOk, w))
    /\ UNCHANGED <<cmd, flags, now, s3, tracked, nproc>>

-----------------------------------------------------------------------------
(* update-secret / create-secret *)

SecretCmds == {"update-secret", "create-secret"}
SecretOps == {"DescribeSecret", "UpdateSecret", "CreateSecret"}
MutationOps == {"UpdateSecret", "CreateSecret"}

\* Error texts returned by the Secrets Manager client, as words
ErrNotFound == <<"operation", "error", "ResourceNotFoundException", "can't", "find", "secret">>
ErrAccessDenied == <<"operation", "error", "AccessDeniedException", "not", "authorized">>
ErrExists == <<"operation", "error", "ResourceExistsException", "already", "exists">>
ErrDeadline == <<"operation", "error", "context", "deadline", "exceeded">>

DescribeErrs == {ErrNotFound, ErrAccessDenied, ErrDeadline}
UpdateErrs == {ErrNotFound, ErrAccessDenied, ErrDeadline}
CreateErrs == {ErrExists, ErrAccessDenied, ErrDeadline}

\* strings.Contains
Contains(s, substr) ==
    \E i \in 0..(Len(s) - Len(substr)) : SubSeq(s, i + 1, i + Len(substr)) = substr

NotFoundNeedle == <<"ResourceNotFoundException">>

IsNotFoundMutant(err) == Contains(err, <<"error">>)

IsNotFound(err) == Contains(err, NotFoundNeedle)

\* string(data): one character per byte, in order
BytesToString(d) == [i \in 1..Len(d) |-> d[i]]

readSecretFromJSON(filePath, files) ==
    IF ~FileAt(files, filePath).present THEN [err |-> TRUE, value |-> <<>>]
    ELSE [err |-> FALSE, value |-> BytesToString(FileAt(files, filePath).data)]

MissingSecretFlags(secretName, region, description, jsonFilePath) ==
    \/ secretName = EmptyStr
    \/ region = EmptyStr
    \/ description = EmptyStr
    \/ jsonFilePath = EmptyStr

DescribeSecretInput(n) == [op |-> "DescribeSecret", name |-> n]

UpdateSecretInputMutant(n, d, v) ==
    [op |-> "UpdateSecret", name |-> n, description |-> n, value |-> v]

UpdateSecretInput(n, d, v) ==
    [op |-> "UpdateSecret", name |-> n, description |-> d, value |-> v]

CreateSecretInput(n, d, v) ==
    [op |-> "CreateSecret", name |-> n, description |-> d, value |-> v]

\* updateSecretCmd from its entry to the DescribeSecret request
updateSecretStart(fl, cfgOk, files) ==
    IF MissingSecretFlags(fl.name, fl.region, fl.description, fl.jsonFile)
    THEN Fatal(Fresh, MsgUsageSecret)
    ELSE LET r == readSecretFromJSON(fl.jsonFile, files)
             st == [Fresh EXCEPT !.fsOps = <<ReadOp(fl.jsonFile)>>]
         IN
         IF r.err THEN Fatal(st, MsgReadSecretErr)
         ELSE IF ~cfgOk THEN Fatal([st EXCEPT !.secretValue = r.value], MsgConfigErr)
         ELSE Issue([st EXCEPT !.secretValue = r.value], DescribeSecretInput(fl.name))

createSecretStartMutant(fl, cfgOk, files) == updateSecretStart(fl, cfgOk, files)

\* createSecretCmd from its entry to the CreateSecret request
createSecretStart(fl, cfgOk, files) ==
    IF MissingSecretFlags(fl.name, fl.region, fl.description, fl.jsonFile)
    THEN Fatal(Fresh, MsgUsageSecret)
    ELSE LET r == readSecretFromJSON(fl.jsonFile, files)
             st == [Fresh EXCEPT !.fsOps = <<ReadOp(fl.jsonFile)>>]
         IN
         IF r.err THEN Fatal(st, MsgReadSecretErr)
         ELSE IF ~cfgOk THEN Fatal([st EXCEPT !.secretValue = r.value], MsgConfigErr)
         ELSE Issue([st EXCEPT !.secretValue = r.value],
                    CreateSecretInput(fl.name, fl.description, r.value))

\* updateSecretCmd past the existence check: "if updateFlag { ... return }",
\* then the create
IssueMutation(st, fl) ==
    IF fl.update
    THEN Issue(st, UpdateSecretInput(fl.name, fl.description, st.secretValue))
    ELSE Issue(st, CreateSecretInput(fl.name, fl.description, st.secretValue))

ExistsBranchMutant(st, fl) == IssueMutation(st, fl)

\* DescribeSecret returned no error
ExistsBranch(st, fl) ==
    IF ~fl.update THEN Finish(st, MsgExistsNoUpdate) ELSE IssueMutation(st, fl)

DescribeFailedMutant(st, fl, err) ==
    IssueMutation([st EXCEPT !.out = Append(@, MsgNotExist)], fl)

\* DescribeSecret returned an error
DescribeFailed(st, fl, err) ==
    IF IsNotFound(err)
    THEN IssueMutation([st EXCEPT !.out = Append(@, MsgNotExist)], fl)
    ELSE Fatal(st, MsgDescribeErr)

\* updateSecretCmd from the return of DescribeSecret to the next request or
\* to the end
AfterDescribe(st, fl, err) ==
    IF err # NoErr THEN DescribeFailed(st, fl, err) ELSE ExistsBranch(st, fl)

UpdateFinishMutant(st, err) == Finish(st, MsgUpdated)

UpdateFinish(st, err) ==
    IF err # NoErr THEN Fatal(st, MsgUpdateErr) ELSE Finish(st, MsgUpdated)

CreateFinish(st, err) ==
    IF err # NoErr THEN Fatal(st, MsgCreateErr) ELSE Finish(st, MsgCreated)

\* ctx of context.WithTimeout(context.Background(), timeout): done once the
\* timeout has elapsed
Expired == now >= flags.timeout

\* what a request made with ctx can return: the deadline error exactly when
\* ctx is done by the time the request would complete
CtxAllows(err) == (err = ErrDeadline) <=> Expired

updateSecretCmd ==
    /\ pc = "idle"
    /\ \E n \in SecretNames, r \in Regions, d \in Descriptions, j \in FilePaths,
          t \in Timeouts, u \in BOOLEAN, cfgOk \in BOOLEAN :
          LET fl == [DefaultFlags EXCEPT !.name = n, !.region = r, !.description = d,
                                         !.jsonFile = j, !.timeout = t, !.update = u] IN
          /\ MissingSecretFlags(n, r, d, j) => cfgOk
          /\ cmd' = "update-secret"
          /\ flags' = fl
          /\ Install(updateSecretStart(fl, cfgOk, fs))
    /\ UNCHANGED <<rets, now, fs, s3, tracked, nproc>>

createSecretCmd ==
    /\ pc = "idle"
    /\ \E n \in SecretNames, r \in Regions, d \in Descriptions, j \in FilePaths,
          t \in Timeouts, cfgOk \in BOOLEAN :
          LET fl == [DefaultFlags EXCEPT !.name = n, !.region = r, !.description = d,
                                         !.jsonFile = j, !.timeout = t] IN
          /\ MissingSecretFlags(n, r, d, j) => cfgOk
          /\ cmd' = "create-secret"
          /\ flags' = fl
          /\ Install(createSecretStart(fl, cfgOk, fs))
    /\ UNCHANGED <<rets, now, fs, s3, tracked, nproc>>

DescribeSecretReturn ==
    /\ pc = "DescribeSecret"
    /\ \E err \in DescribeErrs \cup {NoErr} :
          /\ CtxAllows(err)
          /\ rets' = Append(rets, Result(err = NoErr, err))
          /\ Install(AfterDescribe(Current, flags, err))
    /\ UNCHANGED <<cmd, flags, now, fs, s3, tracked, nproc>>

UpdateSecretReturn ==
    /\ pc = "UpdateSecret"
    /\ \E err \in UpdateErrs \cup {NoErr} :
          /\ CtxAllows(err)
          /\ rets' = Append(rets, Result(err = NoErr, err))
          /\ Install(UpdateFinish(Current, err))
    /\ UNCHANGED <<cmd, flags, now, fs, s3, tracked, nproc>>

CreateSecretReturn ==
    /\ pc = "CreateSecret"
    /\ \E err \in CreateErrs \cup {NoErr} :
          /\ CtxAllows(err)
          /\ rets' = Append(rets, Result(err = NoErr, err))
          /\ Install(CreateFinish(Current, err))
    /\ UNCHANGED <<cmd, flags, now, fs, s3, tracked, nproc>>

\* time passes while a request made with ctx is in flight
Tick ==
    /\ pc \in SecretOps
    /\ now < MaxTime
    /\ now' = now + 1
    /\ UNCHANGED <<pc, cmd, flags, data, secretValue, calls, rets, out, exitCode,
                   fsOps, fs, s3, tracked, nproc>>

\* the next invocation of the program: a new process, the same file system
\* and the same bucket
NewProcess ==
    /\ pc = "done"
    /\ nproc < MaxProcs
    /\ nproc' = nproc + 1
    /\ cmd' = "none"
    /\ flags' = DefaultFlags
    /\ rets' = <<>>
    /\ now' = 0
    /\ Install(Fresh)
    /\ UNCHANGED <<fs, s3, tracked>>

-----------------------------------------------------------------------------
(* Specifications *)

ObjectKeys == {s \o Slash \o f : s \in Subdirs, f \in LocalPaths}

AllObjects == {[bucket |-> b, key |-> k, data |-> d] :
                 b \in BucketNames \ {EmptyStr}, k \in ObjectKeys, d \in Contents}

\* the bucket as the first process finds it.  A process reads or writes one
\* object, so the bucket is empty or holds one object; successive uploads
\* build the larger ones.
Stores == {{}} \cup {{o} : o \in AllObjects}

Init ==
    /\ pc = "idle"
    /\ cmd = "none"
    /\ flags = DefaultFlags
    /\ data = <<>>
    /\ secretValue = <<>>
    /\ calls = <<>>
    /\ rets = <<>>
    /\ out = <<>>
    /\ exitCode = 0
    /\ fsOps = <<>>
    /\ now = 0
    /\ fs \in [LocalPaths -> FileStates]
    /\ s3 \in Stores
    /\ tracked = Untracked
    /\ nproc = 1

\* one execution of the program
Next ==
    \/ uploadCmd
    \/ downloadCmd
    \/ updateSecretCmd
    \/ createSecretCmd
    \/ PutObjectReturn
    \/ GetObjectReturn
    \/ DescribeSecretReturn
    \/ UpdateSecretReturn
    \/ CreateSecretReturn
    \/ Tick

Spec == Init /\ [][Next]_vars

\* successive executions of upload and download on one file system and bucket
NextTransfers ==
    \/ uploadCmd
    \/ downloadCmd
    \/ PutObjectReturn
    \/ GetObjectReturn
    \/ NewProcess

SpecTransfers == Init /\ [][NextTransfers]_vars

-----------------------------------------------------------------------------
(* Properties *)

CountOp(op) == Cardinality({i \in 1..Len(calls) : calls[i].op = op})

LastLine == IF out = <<>> THEN "" ELSE out[Len(out)]

DescribeReturned == Len(rets) >= 1 /\ Len(calls) >= 1 /\ calls[1].op = "DescribeSecret"

\* the describe call reported the not-found signal
DescribeNotFound ==
    DescribeReturned /\ ~rets[1].ok /\ Contains(rets[1].msg, <<"ResourceNotFoundException">>)

\* the describe call failed with any other error
DescribeUnknownError ==
    DescribeReturned /\ ~rets[1].ok /\ ~Contains(rets[1].msg, <<"ResourceNotFoundException">>)

DescribeExists == DescribeReturned /\ rets[1].ok

RawFileContents == FileAt(fs, flags.jsonFile).data

\* C1: in update-secret, once describe has reported NotFound, create has been
\* called exactly once and update never, whether or not --update was passed.
C1_NotFoundCreates ==
    (cmd = "update-secret" /\ DescribeNotFound)
        => (CountOp("CreateSecret") = 1 /\ CountOp("UpdateSecret") = 0)

\* C2: in update-secret, once describe has succeeded and --update was passed,
\* the calls are describe and then one update carrying the supplied name,
\* description and raw file contents, never a create; when that update
\* succeeds the process ends with status 0 and the "updated" line.
C2_ExistsUpdateUpdates ==
    (cmd = "update-secret" /\ DescribeExists /\ flags.update)
        => /\ calls = << [op |-> "DescribeSecret", name |-> flags.name],
                         [op |-> "UpdateSecret", name |-> flags.name,
                          description |-> flags.description,
                          value |-> RawFileContents] >>
           /\ (Len(rets) = 2 /\ rets[2].ok)
                 => (pc = "done" /\ exitCode = 0 /\ LastLine = MsgUpdated)

C2_Witness ==
    /\ cmd = "update-secret" /\ DescribeExists /\ flags.update
    /\ Len(rets) = 2 /\ rets[2].ok /\ pc = "done"
    /\ RawFileContents # <<>>

\* C3: in update-secret, once describe has succeeded and --update was not
\* passed, neither create nor update is called and the process has ended
\* with status 0 and the no-op line.
C3_ExistsNoUpdateNoOp ==
    (cmd = "update-secret" /\ DescribeExists /\ ~flags.update)
        => /\ CountOp("CreateSecret") = 0 /\ CountOp("UpdateSecret") = 0
           /\ Len(calls) = 1
           /\ pc = "done" /\ exitCode = 0
           /\ out = <<MsgExistsNoUpdate>>

C3_Witness ==
    cmd = "update-secret" /\ DescribeExists /\ ~flags.update /\ pc = "done"

\* C4: in update-secret, once describe has failed with an error other than
\* the not-found signal, neither create nor update is called and the process
\* has ended with a non-zero status.
C4_UnknownErrorFatal ==
    (cmd = "update-secret" /\ DescribeUnknownError)
        => /\ CountOp("CreateSecret") = 0 /\ CountOp("UpdateSecret") = 0
           /\ Len(calls) = 1
           /\ pc = "done" /\ exitCode # 0

C4_Witness ==
    /\ cmd = "update-secret" /\ DescribeUnknownError /\ pc = "done"
    /\ rets[1].msg = ErrAccessDenied /\ flags.update

\* C5: create-secret performs a describe call before any create call (and
\* issues no create or update when that describe finds the secret).
C5_CreateDescribesFirst ==
    cmd = "create-secret"
        => /\ \A i \in 1..Len(calls) :
                 calls[i].op = "CreateSecret"
                    => \E j \in 1..(i - 1) : calls[j].op = "DescribeSecret"
           /\ DescribeExists => Len(calls) = 1

\* C5 amended: create-secret performs no describe and no update call; it
\* issues at most one call, a create carrying the supplied name, description
\* and raw file contents; it ends with status 0 only when that create
\* succeeded, and a failed create (the secret already exists, for one) ends
\* it with a non-zero status and the create error line.
C5_CreateWithoutDescribe ==
    cmd = "create-secret"
        => /\ CountOp("DescribeSecret") = 0 /\ CountOp("UpdateSecret") = 0
           /\ Len(calls) <= 1
           /\ \A i \in 1..Len(calls) :
                 calls[i] = [op |-> "CreateSecret", name |-> flags.name,
                             description |-> flags.description,
                             value |-> RawFileContents]
           /\ (pc = "done" /\ exitCode = 0)
                 => (Len(rets) = 1 /\ rets[1].ok /\ LastLine = MsgCreated)
           /\ (Len(rets) = 1 /\ ~rets[1].ok)
                 => (pc = "done" /\ exitCode # 0 /\ LastLine = MsgCreateErr)

C5_Witness ==
    /\ cmd = "create-secret" /\ pc = "done"
    /\ Len(rets) = 1 /\ rets[1].msg = ErrExists

\* C6: when a download has succeeded with the bucket, subdirectory and file
\* arguments of an earlier successful upload whose object key has not been
\* written since, the local file at the file path holds exactly the bytes
\* that were uploaded; every put and get of a process addresses the key
\* subdirectory + "/" + filePath in the given bucket.
C6_RoundTrip ==
    /\ (/\ cmd = "download" /\ pc = "done" /\ exitCode = 0
        /\ tracked.valid
        /\ tracked.bucket = flags.bucket
        /\ tracked.sub = flags.subdirectory
        /\ tracked.file = flags.file)
          => FileAt(fs, flags.file) = File(tracked.data)
    /\ \A i \in 1..Len(calls) :
          calls[i].op \in {"PutObject", "GetObject"}
             => /\ calls[i].bucket = flags.bucket
                /\ calls[i].key = flags.subdirectory \o <<"/">> \o flags.file

C6_Witness ==
    /\ cmd = "download" /\ pc = "done" /\ exitCode = 0
    /\ tracked.valid
    /\ tracked.bucket = flags.bucket
    /\ tracked.sub = flags.subdirectory
    /\ tracked.file = flags.file
    /\ tracked.data # <<>>
    /\ nproc >= 2

RequiredFlagMissing ==
    \/ /\ cmd \in {"upload", "download"}
       /\ (flags.bucket = <<>> \/ flags.file = <<>>)
    \/ /\ cmd \in SecretCmds
       /\ \/ flags.name = <<>>
          \/ flags.region = <<>>
          \/ flags.description = <<>>
          \/ flags.jsonFile = <<>>

\* C7: in each of the four commands, when a required flag is empty the
\* process has ended with a non-zero status having issued no network call
\* and performed no local file read or write.
C7_MissingFlagFatal ==
    RequiredFlagMissing
        => /\ pc = "done" /\ exitCode # 0
           /\ calls = <<>> /\ rets = <<>>
           /\ fsOps = <<>>

C7_Witness ==
    /\ cmd = "upload" /\ pc = "done"
    /\ flags.bucket = <<>> /\ flags.file # <<>>
    /\ FileAt(fs, flags.file).present

\* a call that failed, the describe that reports not-found excepted
FailedCall(i) ==
    /\ ~rets[i].ok
    /\ ~(i = 1 /\ DescribeNotFound)

NoRetryAndFailFast ==
    /\ Len(calls) <= 2
    /\ CountOp("CreateSecret") + CountOp("UpdateSecret") <= 1
    /\ \A i, j \in 1..Len(calls) : i # j => calls[i].op # calls[j].op
    /\ \A i \in 1..Len(rets) :
          FailedCall(i) => (pc = "done" /\ exitCode # 0 /\ Len(calls) = i)

MutationAfterDescribe ==
    \A i \in 1..Len(calls) :
       calls[i].op \in MutationOps
          => (i = 2 /\ calls[1].op = "DescribeSecret" /\ Len(rets) >= 1)

\* C8: in every execution of a secret command the network calls are at most
\* describe followed by one of create/update: at most one mutation, issued
\* only after a describe call has returned, no call issued twice, and a
\* failing call is at once followed by termination with non-zero status.
C8_DescribeThenOneMutation ==
    cmd \in SecretCmds => (NoRetryAndFailFast /\ MutationAfterDescribe)

\* C8 amended: in every execution of a secret command at most one mutation
\* is issued, no call is issued twice, and a failing call is at once
\* followed by termination with non-zero status; in update-secret the
\* mutation is issued only after the describe call has returned, while
\* create-secret issues its create as its only call, with no describe.
C8_OneMutationNoRetry ==
    /\ cmd \in SecretCmds => NoRetryAndFailFast
    /\ cmd = "update-secret" => MutationAfterDescribe
    /\ cmd = "create-secret"
          => (Len(calls) <= 1 /\ \A i \in 1..Len(calls) : calls[i].op = "CreateSecret")

C8_Witness ==
    /\ cmd = "update-secret" /\ pc = "done"
    /\ Len(calls) = 2 /\ Len(rets) = 2
    /\ rets[1].ok /\ ~rets[2].ok

\* C9: in the secret commands one deadline, counted from the creation of the
\* context, covers the whole call sequence: a call that returns at or after
\* the deadline has failed, the process has ended with a non-zero status and
\* that call is the last one issued; a describe that times out leads to no
\* create or update.
C9_DeadlineCoversSequence ==
    cmd \in SecretCmds
        => \A i \in 1..Len(rets) :
              rets[i].at >= flags.timeout
                 => /\ ~rets[i].ok
                    /\ pc = "done" /\ exitCode # 0
                    /\ Len(calls) = i

C9_Witness ==
    /\ cmd = "update-secret" /\ pc = "done"
    /\ Len(rets) = 2
    /\ flags.timeout = 2
    /\ rets[1].at = 1 /\ rets[2].at = 2

DownloadFailedBeforeWrite ==
    /\ cmd = "download"
    /\ \E i \in 1..Len(rets) : ~rets[i].ok

\* C10: a download whose get call or body read failed has ended with a
\* non-zero status without a write to the local file, and the steps of such
\* a download leave the local file system unchanged; an upload whose local
\* file cannot be read has ended with a non-zero status without a put call.
C10_NoWriteOnFailedFetch ==
    /\ [](DownloadFailedBeforeWrite
            => (/\ pc = "done" /\ exitCode # 0
                /\ \A i \in 1..Len(fsOps) : fsOps[i].op # "WriteFile"))
    /\ []((/\ cmd = "upload"
           /\ flags.bucket # <<>> /\ flags.file # <<>>
           /\ ~FileAt(fs, flags.file).present)
            => (pc = "done" /\ exitCode # 0 /\ calls = <<>>))
    /\ [][(cmd' = "download" /\ \E i \in 1..Len(rets') : ~rets'[i].ok)
             => fs' = fs]_vars

C10_Witness ==
    /\ DownloadFailedBeforeWrite /\ pc = "done"
    /\ Len(rets) = 2 /\ ~rets[2].ok
    /\ FileAt(fs, flags.file).present

====
